---- MODULE Spec2Model ----
(***************************************************************************)
(* Segmentation-mask filtering of scPortrait                               *)
(* (src/src/scportrait/processing/filtering.py).                           *)
(*                                                                         *)
(* A label mask is a sequence of pixel values (the array flattened in C    *)
(* order); every operation of the filters is pixelwise or indexes one mask *)
(* with the pixel positions of another, so the flat order is all that the  *)
(* code depends on.  Python's None is the empty tuple and a present value  *)
(* x is <<x>>.  A dict is the sequence of its <<key, value>> items in      *)
(* insertion order; a list is a sequence.                                  *)
(***************************************************************************)
EXTENDS Integers, Sequences, FiniteSets, TLC

\* ---------------------------------------------------------------- bounds
NPix == 4
MaxId == 3
\* combine_datasets_balanced: at most MaxDatasets datasets of at most MaxLen
\* samples, class labels 0..MaxLabel, at most MaxPerClass samples per class
\* asked for in a split
MaxDatasets == 3
MaxLen == 2
MaxLabel == 2
MaxPerClass == 2
\* _get_index_population: at most MaxComponents mixture components, their
\* means and weights in 0..MaxMeasure
MaxComponents == 2
MaxMeasure == 2

None == << >>
Some(x) == <<x>>
Val(o) == o[1]

Ids == 0..MaxId
Masks == [1..NPix -> Ids]

\* The filters never look at pixel positions, only at the values found at a
\* position (of one mask, or of both masks of a pair), so a simultaneous
\* permutation of the pixels changes nothing but the order of the output
\* pixels.  The masks a session is first given are enumerated up to that
\* permutation: one mask with its values ascending, a pair with its
\* (nucleus, cytosol) pixel pairs ascending.
IsSortedMask(m) == \A i \in 1..(Len(m) - 1) : m[i] <= m[i + 1]
SortedMasks == {m \in Masks : IsSortedMask(m)}
MaskPairs ==
    {p \in SortedMasks \X Masks :
        \A i \in 1..(NPix - 1) : p[1][i] = p[1][i + 1] => p[2][i] <= p[2][i + 1]}
\* Uniform masks: what a caller passes to a session that is already loaded,
\* besides the masks it was loaded with.
UniformMasks == {[i \in 1..NPix |-> v] : v \in Ids}

\* Overlap thresholds num/den in (0, 1]; dyadic, so that the float comparison
\* counts / all_counts >= threshold is the exact comparison of the fractions.
Thresholds == {<<1, 4>>, <<1, 2>>, <<1, 1>>}
\* the downsampling factor of the sessions constructed with one
DownsamplingFactor == 2

\* ------------------------------------------------------ lists, sets, dicts
Range(s) == {s[i] : i \in 1..Len(s)}
InList(x, l) == \E i \in 1..Len(l) : l[i] = x
SetMin(S) == CHOOSE x \in S : \A y \in S : x <= y

RECURSIVE SortSet(_)
\* sorted(S): the elements of a set of integers, ascending
SortSet(S) == IF S = {} THEN << >> ELSE <<SetMin(S)>> \o SortSet(S \ {SetMin(S)})

\* np.unique(a): the distinct values of the array, ascending
np_unique(a) == SortSet(Range(a))
\* the counts of np.unique(a, return_counts=True), aligned with np_unique(a)
np_unique_counts(a) ==
    LET u == np_unique(a)
    IN [k \in 1..Len(u) |-> Cardinality({i \in 1..Len(a) : a[i] = u[k]})]
\* a[1:]
DropFirst(a) == SubSeq(a, 2, Len(a))

\* list(set(l)); the order of the result is not observable: the lists are
\* only tested for membership (np.isin, `in`)
ListOfSet(l) == SortSet(Range(l))

DictKeys(d) == [i \in 1..Len(d) |-> d[i][1]]
DictValues(d) == [i \in 1..Len(d) |-> d[i][2]]
HasKey(d, k) == \E i \in 1..Len(d) : d[i][1] = k
\* d[k] = v: an existing key keeps its position, a new key goes last
DictSet(d, k, v) ==
    IF HasKey(d, k)
    THEN [i \in 1..Len(d) |-> IF d[i][1] = k THEN <<k, v>> ELSE d[i]]
    ELSE Append(d, <<k, v>>)
\* del d[k] for every k of ks
DictDel(d, ks) == SelectSeq(d, LAMBDA e : e[1] \notin ks)

\* ------------------------------------------------------------ _BaseFilter
\* the mutated body: np.unique(mask) with the first element kept
get_unique_ids_keepfirst(mask) == np_unique(mask)
get_unique_ids(mask) == DropFirst(np_unique(mask))

\* the mutated body: np.where with its two value arguments swapped
get_updated_mask_swapped(mask, ids) ==
    [i \in 1..Len(mask) |-> IF InList(mask[i], ids) THEN mask[i] ELSE 0]
\* np.where(np.isin(mask, ids_to_remove), 0, mask)
get_updated_mask(mask, ids) ==
    [i \in 1..Len(mask) |-> IF InList(mask[i], ids) THEN 0 ELSE mask[i]]

\* An array with a shape: the extents of its axes and its values in C order.
RECURSIVE Product(_)
Product(q) == IF q = << >> THEN 1 ELSE Head(q) * Product(Tail(q))
\* the number of flat positions one step along axis a (1-based) spans
Stride(shape, a) == Product(SubSeq(shape, a + 1, Len(shape)))
\* the coordinate along axis a of the flat position k (0-based)
Coord(shape, k, a) == (k \div Stride(shape, a)) % shape[a]
\* the flat position (0-based) of the coordinates c
RECURSIVE FlatFrom(_, _, _)
FlatFrom(shape, c, a) ==
    IF a > Len(shape) THEN 0
    ELSE c[a] * Stride(shape, a) + FlatFrom(shape, c, a + 1)

\* arr.repeat(N, axis=axis), axis 0-based as in numpy: every element is
\* repeated N times along the axis
np_repeat(arr, N, axis) ==
    LET out == [arr.shape EXCEPT ![axis + 1] = @ * N]
    IN [shape |-> out,
        data |-> [j \in 1..Product(out) |->
                    arr.data[1 + FlatFrom(arr.shape,
                                 [a \in 1..Len(out) |->
                                     IF a = axis + 1 THEN Coord(out, j - 1, a) \div N
                                     ELSE Coord(out, j - 1, a)], 1)]]]

\* get_upscaled_mask_basic with erosion_dilation=False
get_upscaled_mask_basic(arr, N) == np_repeat(np_repeat(arr, N, 0), N, 1)

\* ------------------------------------------------- MatchNucleusCytosolIds
\* `self` is the session object as a record of its attributes.
\* downsampling_factor: None, or the factor the session was constructed with
\* (self.downsample is True exactly then).
\* match_call: the method called last ("none" before any call); arg_shapes: the
\* shapes of the two masks that call was given; error: the exception it ended
\* in ("none" when it returned); ret_nucleus / ret_cytosol: the masks a filter
\* call returned, None after any other call.
\* args_intact: the arrays the caller passed to the last call hold after the
\* call what they held before it; args_differ: the last call was given a pair
\* of masks other than the pair the session held.
VARIABLES filtering_threshold, downsampling_factor, nucleus_mask, cytosol_mask,
          _nucleus_lookup_dict, nuclei_discard_list, cytosol_discard_list,
          cytosol_count, nucleus_lookup_dict, match_call, arg_shapes, error,
          ret_nucleus, ret_cytosol, args_intact, args_differ

mvars == <<filtering_threshold, downsampling_factor, nucleus_mask, cytosol_mask,
           _nucleus_lookup_dict, nuclei_discard_list, cytosol_discard_list,
           cytosol_count, nucleus_lookup_dict, match_call, arg_shapes, error,
           ret_nucleus, ret_cytosol, args_intact, args_differ>>

\* the session at the start of a call: no exception yet
Self ==
    [filtering_threshold |-> filtering_threshold,
     downsampling_factor |-> downsampling_factor,
     error |-> "none",
     nucleus_mask |-> nucleus_mask,
     cytosol_mask |-> cytosol_mask,
     _nucleus_lookup_dict |-> _nucleus_lookup_dict,
     nuclei_discard_list |-> nuclei_discard_list,
     cytosol_discard_list |-> cytosol_discard_list,
     cytosol_count |-> cytosol_count,
     nucleus_lookup_dict |-> nucleus_lookup_dict]

\* the attributes MatchNucleusCytosolIds.__init__ sets
MatchNucleusCytosolIds_attributes(threshold, factor) ==
    [filtering_threshold |-> threshold,
     downsampling_factor |-> factor,
     error |-> "none",
     nucleus_mask |-> None,
     cytosol_mask |-> None,
     _nucleus_lookup_dict |-> << >>,
     nuclei_discard_list |-> << >>,
     cytosol_discard_list |-> << >>,
     cytosol_count |-> << >>,
     nucleus_lookup_dict |-> None]

\* self.downsample
downsample(self) == self.downsampling_factor # None

\* the mutated body: without downsampling every call loads the masks passed
_load_masks_reload(self, nm, cm) ==
    IF downsample(self)
    THEN IF self.nucleus_mask = None \/ self.cytosol_mask = None
         THEN [self EXCEPT !.error = "AttributeError"]
         ELSE self
    ELSE [self EXCEPT !.nucleus_mask = Some(nm), !.cytosol_mask = Some(cm)]
\* With downsampling a mask is loaded through self.downsample_mask, an
\* attribute no class of the session defines: the lookup raises
\* AttributeError before anything is assigned.
_load_masks(self, nm, cm) ==
    IF downsample(self)
    THEN IF self.nucleus_mask = None \/ self.cytosol_mask = None
         THEN [self EXCEPT !.error = "AttributeError"]
         ELSE self
    ELSE [self EXCEPT
            !.nucleus_mask = IF @ = None THEN Some(nm) ELSE @,
            !.cytosol_mask = IF @ = None THEN Some(cm) ELSE @]

\* np.where(self.nucleus_mask == nucleus_id)
nucleus_pixels_of(self, nucleus_id) ==
    LET nm == Val(self.nucleus_mask)
    IN SortSet({i \in 1..Len(nm) : nm[i] = nucleus_id})

\* whether self.cytosol_mask[nucleus_pixels] raises IndexError: some pixel of
\* the nucleus lies outside the cytosol mask
index_error(self, nucleus_id) ==
    \E i \in Range(nucleus_pixels_of(self, nucleus_id)) : i > Len(Val(self.cytosol_mask))

\* self.cytosol_mask[np.where(self.nucleus_mask == nucleus_id)]
potential_cytosol(self, nucleus_id) ==
    LET cm == Val(self.cytosol_mask)
        nucleus_pixels == nucleus_pixels_of(self, nucleus_id)
    IN [k \in 1..Len(nucleus_pixels) |-> cm[nucleus_pixels[k]]]

RECURSIVE np_sum(_)
np_sum(a) == IF a = << >> THEN 0 ELSE Head(a) + np_sum(Tail(a))

\* the mutated body: the proportion has to exceed the threshold
proportions_reached_strict(counts, threshold) ==
    {k \in 1..Len(counts) :
        counts[k] * threshold[2] > threshold[1] * np_sum(counts)}

\* counts / all_counts >= self.filtering_threshold, elementwise, as the set of
\* the positions that are True
proportions_reached(counts, threshold) ==
    {k \in 1..Len(counts) :
        counts[k] * threshold[2] >= threshold[1] * np_sum(counts)}

\* the value _match_nucleus_id returns: Some(cytosol_id) or None
matched_cytosol(self, nucleus_id) ==
    LET potential == potential_cytosol(self, nucleus_id)
        unique_cytosol == np_unique(potential)
        counts == np_unique_counts(potential)
        reached == proportions_reached(counts, self.filtering_threshold)
    IN IF \A k \in 1..Len(potential) : potential[k] # 0
       THEN IF reached # {}
            THEN \* np.argmax of a boolean array: the first True
                 IF unique_cytosol[SetMin(reached)] # 0
                 THEN Some(unique_cytosol[SetMin(reached)])
                 ELSE None
            ELSE None
       ELSE None

_match_nucleus_id(self, nucleus_id) ==
    IF index_error(self, nucleus_id) THEN [self EXCEPT !.error = "IndexError"]
    ELSE LET m == matched_cytosol(self, nucleus_id)
         IN IF m # None
            THEN [self EXCEPT !._nucleus_lookup_dict = DictSet(@, nucleus_id, Val(m))]
            ELSE [self EXCEPT !.nuclei_discard_list = Append(@, nucleus_id)]

RECURSIVE match_all(_, _)
\* for nucleus_id in all_nucleus_ids: self._match_nucleus_id(nucleus_id)
match_all(self, all_nucleus_ids) ==
    IF all_nucleus_ids = << >> \/ self.error # "none" THEN self
    ELSE match_all(_match_nucleus_id(self, Head(all_nucleus_ids)), Tail(all_nucleus_ids))

_initialize_lookup_table(self) ==
    match_all(self, get_unique_ids(Val(self.nucleus_mask)))

\* the mutated body: the counts are added to the counts the session holds
\* from the call before
_count_cytosol_occurances_accumulating(self) ==
    LET values == DictValues(self._nucleus_lookup_dict)
        held == self.cytosol_count
    IN [self EXCEPT !.cytosol_count =
            [c \in Range(values) \cup (IF held = << >> THEN {} ELSE DOMAIN held) |->
                (IF held # << >> /\ c \in DOMAIN held THEN held[c] ELSE 0)
                + Cardinality({i \in 1..Len(values) : values[i] = c})]]
\* cytosol_count is a new defaultdict(int) in every call
_count_cytosol_occurances(self) ==
    LET values == DictValues(self._nucleus_lookup_dict)
    IN [self EXCEPT !.cytosol_count =
            [c \in Range(values) |-> Cardinality({i \in 1..Len(values) : values[i] = c})]]

_check_for_unassigned_cytosols(self) ==
    LET all_cytosol_ids == get_unique_ids(Val(self.cytosol_mask))
        values == DictValues(self._nucleus_lookup_dict)
    IN [self EXCEPT !.cytosol_discard_list =
            @ \o SelectSeq(all_cytosol_ids, LAMBDA c : ~InList(c, values))]

RECURSIVE multinucleated_gt2(_, _, _)
\* the mutated body: a cytosol counts as multinucleated from three nuclei on
multinucleated_gt2(d, count, which) ==
    IF d = << >> THEN << >>
    ELSE (IF count[Head(d)[2]] > 2 THEN <<Head(d)[which]>> ELSE << >>)
         \o multinucleated_gt2(Tail(d), count, which)

RECURSIVE multinucleated(_, _, _)
\* the (nucleus, cytosol) items of the dict, in its order, whose cytosol is
\* counted more than once: `which` = 1 lists the nuclei, 2 the cytosols
multinucleated(d, count, which) ==
    IF d = << >> THEN << >>
    ELSE (IF count[Head(d)[2]] > 1 THEN <<Head(d)[which]>> ELSE << >>)
         \o multinucleated(Tail(d), count, which)

\* the mutated body: only the cytosol of a multinucleated cell is discarded
_identify_multinucleated_cells_cytosol_only(self) ==
    [self EXCEPT
        !.cytosol_discard_list =
            @ \o multinucleated(self._nucleus_lookup_dict, self.cytosol_count, 2)]

_identify_multinucleated_cells(self) ==
    [self EXCEPT
        !.nuclei_discard_list =
            @ \o multinucleated(self._nucleus_lookup_dict, self.cytosol_count, 1),
        !.cytosol_discard_list =
            @ \o multinucleated(self._nucleus_lookup_dict, self.cytosol_count, 2)]

\* the mutated body: the discard lists are left as they are
_cleanup_filtering_lists_skipped(self) == self
_cleanup_filtering_lists(self) ==
    [self EXCEPT
        !.nuclei_discard_list = ListOfSet(@),
        !.cytosol_discard_list = ListOfSet(@)]

_cleanup_lookup_dictionary(self) ==
    LET d == self._nucleus_lookup_dict
        _cleanup == {d[i][1] : i \in {j \in 1..Len(d) :
                        \/ InList(d[j][1], self.nuclei_discard_list)
                        \/ InList(d[j][2], self.cytosol_discard_list)}}
    IN [self EXCEPT !._nucleus_lookup_dict = DictDel(@, _cleanup)]

\* nucleus_lookup_dict is the same object as _nucleus_lookup_dict from the
\* first call on: both names always show the same dict
publish(self) ==
    [self EXCEPT !.nucleus_lookup_dict = Some(self._nucleus_lookup_dict)]

\* the steps of get_lookup_table after the lookup table is initialized
finish_lookup_table(self) ==
    publish(
    _cleanup_lookup_dictionary(
    _cleanup_filtering_lists(
    _identify_multinucleated_cells(
    _check_for_unassigned_cytosols(
    _count_cytosol_occurances(self))))))

\* an exception of a step ends the call: the later steps do not run
get_lookup_table(self, nm, cm) ==
    LET loaded == _load_masks(self, nm, cm)
        initialized == _initialize_lookup_table(loaded)
    IN IF loaded.error # "none" THEN loaded
       ELSE IF initialized.error # "none" THEN initialized
       ELSE finish_lookup_table(initialized)

RECURSIVE relabel(_, _, _)
\* the loop of _get_updated_cytosol_mask over the items of the lookup dict;
\* `updated` is the set of the pixels already rewritten
relabel(mask, updated, items) ==
    IF items = << >> THEN mask
    ELSE LET nucleus_id == Head(items)[1]
             cytosol_id == Head(items)[2]
             condition == {i \in 1..Len(mask) : mask[i] = cytosol_id /\ i \notin updated}
         IN relabel([i \in 1..Len(mask) |-> IF i \in condition THEN nucleus_id ELSE mask[i]],
                    updated \cup condition,
                    Tail(items))

\* the mutated body: the discarded ids are zeroed and the ids rewritten in
\* the array passed in
_get_updated_cytosol_mask_inplace(self, mask) ==
    LET written == relabel(get_updated_mask(mask, self.cytosol_discard_list), {},
                           Val(self.nucleus_lookup_dict))
    IN [arg |-> written, ret |-> written]
\* _get_updated_cytosol_mask: ret is the array returned, arg the array passed
\* in as it is after the call.  get_updated_mask returns a new array
\* (np.where), the local name is rebound to it and the loop writes into it.
_get_updated_cytosol_mask(self, mask) ==
    LET written == relabel(get_updated_mask(mask, self.cytosol_discard_list), {},
                           Val(self.nucleus_lookup_dict))
    IN [arg |-> mask, ret |-> written]

\* a mask of the session as an array of one row, upscaled, flat again
upscaled(self, mask) ==
    get_upscaled_mask_basic([shape |-> <<1, Len(mask)>>, data |-> mask],
                            Val(self.downsampling_factor)).data

\* _get_updated_masks: <<nucleus_mask, cytosol_mask, self.cytosol_mask after
\* the call>>; self.cytosol_mask is the array handed to
\* _get_updated_cytosol_mask.  With downsampling (erosion_dilation=False) the
\* second mask is the upscaled self.cytosol_mask.
_get_updated_masks(self) ==
    LET nm == get_updated_mask(Val(self.nucleus_mask), self.nuclei_discard_list)
        cm == _get_updated_cytosol_mask(self, Val(self.cytosol_mask))
    IN IF downsample(self)
       THEN <<upscaled(self, nm), upscaled(self, cm.arg), cm.arg>>
       ELSE <<nm, cm.ret, cm.arg>>

\* the session after filter(nm, cm)
MatchNucleusCytosolIds_filter(self, nm, cm) ==
    LET loaded == _load_masks(self, nm, cm)
    IN IF loaded.error # "none" THEN loaded
       ELSE IF loaded.nucleus_lookup_dict = None
            THEN get_lookup_table(loaded, nm, cm)
            ELSE loaded

\* what a caller may pass: any pair of masks to a fresh session; to a loaded
\* session the pair it holds or a pair of uniform masks
CallMasks ==
    IF nucleus_mask = None THEN MaskPairs
    ELSE {<<Val(nucleus_mask), Val(cytosol_mask)>>} \cup {<<u, u>> : u \in UniformMasks}

Store(self) ==
    /\ nucleus_mask' = self.nucleus_mask
    /\ cytosol_mask' = self.cytosol_mask
    /\ _nucleus_lookup_dict' = self._nucleus_lookup_dict
    /\ nuclei_discard_list' = self.nuclei_discard_list
    /\ cytosol_discard_list' = self.cytosol_discard_list
    /\ cytosol_count' = self.cytosol_count
    /\ nucleus_lookup_dict' =
            IF self.nucleus_lookup_dict = None THEN None
            ELSE Some(self._nucleus_lookup_dict)
    /\ error' = self.error
    /\ UNCHANGED <<filtering_threshold, downsampling_factor>>

\* whether the pair passed is another pair than the one the session holds
differs(nm, cm) ==
    nucleus_mask # None /\ <<nm, cm>> # <<Val(nucleus_mask), Val(cytosol_mask)>>

MatchGetLookupTable(nm, cm) ==
    /\ Store(get_lookup_table(Self, nm, cm))
    /\ match_call' = "get_lookup_table"
    /\ arg_shapes' = <<Len(nm), Len(cm)>>
    /\ ret_nucleus' = None
    /\ ret_cytosol' = None
    /\ args_intact' = TRUE
    /\ args_differ' = differs(nm, cm)

\* Without downsampling the session holds the caller's arrays themselves
\* (self.cytosol_mask = cytosol_mask): a caller who passes what the session
\* holds passes those arrays, and a write to self.cytosol_mask is a write to
\* the caller's array.
MatchFilter(nm, cm) ==
    LET self == MatchNucleusCytosolIds_filter(Self, nm, cm)
        masks == _get_updated_masks(self)
        after == IF self.error # "none" THEN self
                 ELSE [self EXCEPT !.cytosol_mask = Some(masks[3])]
    IN /\ Store(after)
       /\ match_call' = "filter"
       /\ arg_shapes' = <<Len(nm), Len(cm)>>
       /\ ret_nucleus' = IF self.error # "none" THEN None ELSE Some(masks[1])
       /\ ret_cytosol' = IF self.error # "none" THEN None ELSE Some(masks[2])
       /\ args_intact' = (differs(nm, cm) \/ downsample(self)
                            \/ after.cytosol_mask \in {None, Some(cm)})
       /\ args_differ' = differs(nm, cm)

\* -------------------------------------------------------------- SizeFilter
\* session: "none" before the constructor ran, "ready" once it returned the
\* object, "ValueError" when it raised (no object exists then).
\* given_threshold: the filter_threshold argument the constructor was given.
\* arg_mask / ret_mask: the argument and the return value of the latest filter
\* call; raised: whether that call ended in the exception of the mixture fit.
\* fitted: whether some call of the session ran _calculate_filtering_threshold.
VARIABLES session, given_threshold, filter_threshold, filter_lower, filter_upper,
          ids_to_remove, mask, ids, arg_mask, ret_mask, raised, fitted

svars == <<session, given_threshold, filter_threshold, filter_lower, filter_upper,
           ids_to_remove, mask, ids, arg_mask, ret_mask, raised, fitted>>

\* Thresholds (lo, hi) in pixels.  Pixel counts are integers, so a real bound
\* b acts as an integer: count < b as count < ceil(b), count > b as
\* count > floor(b); lo = hi + 1 stands for a pair of equal non-integer bounds.
ThresholdValues == 1..(NPix - 1)
ThresholdPairs == {t \in ThresholdValues \X ThresholdValues : t[1] <= t[2] + 1}

SizeSelf ==
    [filter_threshold |-> filter_threshold,
     filter_lower |-> filter_lower,
     filter_upper |-> filter_upper,
     ids_to_remove |-> ids_to_remove,
     mask |-> mask,
     ids |-> ids]

\* the attributes SizeFilter.__init__ sets (downsampling_factor=None)
SizeFilter_attributes(threshold, lower, upper) ==
    [filter_threshold |-> threshold,
     filter_lower |-> lower,
     filter_upper |-> upper,
     ids_to_remove |-> None,
     mask |-> None,
     ids |-> << >>]

\* the mutated body: the sanity check raises when either tail is disabled
init_raises_either(lower, upper) == ~lower \/ ~upper
\* the sanity check of SizeFilter.__init__: whether it raises ValueError
init_raises(lower, upper) == ~lower /\ ~upper

load_mask(self, input_mask) ==
    [self EXCEPT !.mask = IF @ = None THEN Some(input_mask) ELSE @]

\* counts[0][1:] and counts[1][1:] of np.unique(self.mask, return_counts=True)
counted_ids(self) == DropFirst(np_unique(Val(self.mask)))
pixel_counts(self) == DropFirst(np_unique_counts(Val(self.mask)))

\* counts[0][1:][np.where(pixel_counts < bound)], resp. > bound
ids_below(self, bound) ==
    LET i == counted_ids(self)
        c == pixel_counts(self)
        idx == [k \in 1..Len(i) |-> k]
    IN [k \in 1..Len(SelectSeq(idx, LAMBDA j : c[j] < bound)) |->
            i[SelectSeq(idx, LAMBDA j : c[j] < bound)[k]]]
ids_above(self, bound) ==
    LET i == counted_ids(self)
        c == pixel_counts(self)
        idx == [k \in 1..Len(i) |-> k]
    IN [k \in 1..Len(SelectSeq(idx, LAMBDA j : c[j] > bound)) |->
            i[SelectSeq(idx, LAMBDA j : c[j] > bound)[k]]]

\* _calculate_filtering_threshold: the fit of the mixture model to the pixel
\* counts is not computed here.  Its outcome is a function of the cached mask
\* and of the configuration alone (random_state=0); `fit` is that outcome:
\* None when the fit raises, else the pair (lower, upper) it stores, lower <=
\* upper.  A fit needs at least one sample.
FitOutcomes(self) ==
    {None} \cup (IF pixel_counts(self) = << >> THEN {}
                 ELSE {Some(t) : t \in {u \in ThresholdPairs : u[1] <= u[2]}})

\* _get_ids_to_remove after the threshold is known
collect_ids(self) ==
    LET t == Val(self.filter_threshold)
    IN [self EXCEPT !.ids_to_remove =
            Some((IF self.filter_lower THEN ids_below(self, t[1]) ELSE << >>)
                 \o (IF self.filter_upper THEN ids_above(self, t[2]) ELSE << >>))]

\* the mutated body: the threshold is calculated whether one is set or not
needs_fit_always(self) == TRUE
\* `if self.filter_threshold is None` of _get_ids_to_remove
needs_fit(self) == self.filter_threshold = None

\* whether filter on this session calls _calculate_filtering_threshold
fit_runs(self) == self.ids_to_remove = None /\ needs_fit(self)

\* _get_ids_to_remove(input_mask) with the outcome `fit` of the mixture fit;
\* when the fit raises, the mask and the ids stay loaded
_get_ids_to_remove(self, input_mask, fit) ==
    LET loaded == [load_mask(self, input_mask) EXCEPT
                        !.ids = counted_ids(load_mask(self, input_mask))]
    IN IF ~needs_fit(loaded) THEN collect_ids(loaded)
       ELSE IF fit = None THEN loaded
       ELSE collect_ids([loaded EXCEPT !.filter_threshold = fit])

\* the mutated body: every call loads its argument and computes the ids anew
SizeFilter_filter_reload(self, input_mask, fit) ==
    _get_ids_to_remove([self EXCEPT !.mask = None], input_mask, fit)
\* the session after filter(input_mask)
SizeFilter_filter(self, input_mask, fit) ==
    IF self.ids_to_remove = None
    THEN _get_ids_to_remove(self, input_mask, fit)
    ELSE self

\* filter(input_mask) on a fresh session with an explicit threshold: the mask
\* it returns
filter_fresh(threshold, lower, upper, input_mask) ==
    LET self == SizeFilter_filter(
                    SizeFilter_attributes(Some(threshold), lower, upper),
                    input_mask, None)
    IN get_updated_mask(input_mask, Val(self.ids_to_remove))

SizeStore(self) ==
    /\ filter_threshold' = self.filter_threshold
    /\ ids_to_remove' = self.ids_to_remove
    /\ mask' = self.mask
    /\ ids' = self.ids
    /\ UNCHANGED <<given_threshold, filter_lower, filter_upper>>

\* SizeFilter(filter_threshold=threshold, filter_lower=lower, filter_upper=upper)
SizeFilterNew(threshold, lower, upper) ==
    /\ session = "none"
    /\ session' = IF init_raises(lower, upper) THEN "ValueError" ELSE "ready"
    /\ given_threshold' = threshold
    /\ filter_threshold' = threshold
    /\ filter_lower' = lower
    /\ filter_upper' = upper
    /\ UNCHANGED <<ids_to_remove, mask, ids, arg_mask, ret_mask, raised, fitted>>

\* filter(input_mask) that returns
SizeFilterFilter(input_mask) ==
    /\ session = "ready"
    /\ \E fit \in (IF ~fit_runs(SizeSelf) THEN {None}
                   ELSE IF mask # None THEN {}
                   ELSE FitOutcomes(load_mask(SizeSelf, input_mask)) \ {None}) :
         LET self == SizeFilter_filter(SizeSelf, input_mask, fit)
         IN /\ SizeStore(self)
            /\ ret_mask' = Some(get_updated_mask(input_mask, Val(self.ids_to_remove)))
    /\ arg_mask' = Some(input_mask)
    /\ raised' = FALSE
    /\ fitted' = (fitted \/ fit_runs(SizeSelf))
    /\ UNCHANGED session

\* filter(input_mask) that ends in the exception of the mixture fit.  The fit
\* is computed from the cached mask: once it raised on a session it raises
\* on every later call, and it never raises after a call that returned.
SizeFilterFitError(input_mask) ==
    /\ session = "ready"
    /\ fit_runs(SizeSelf)
    /\ SizeStore(SizeFilter_filter(SizeSelf, input_mask, None))
    /\ arg_mask' = Some(input_mask)
    /\ ret_mask' = None
    /\ raised' = TRUE
    /\ fitted' = TRUE
    /\ UNCHANGED session

\* ------------------------------------------- calls of the mask utilities
\* A caller holds a mask (call_mask) and a list of ids (call_ids) and calls one
\* utility on them.  call: the utility called ("none" before the call);
\* call_result: its return value.
VARIABLES call, call_mask, call_ids, call_result

uvars == <<call, call_mask, call_ids, call_result>>

CallGetUniqueIds ==
    /\ call = "none"
    /\ call' = "get_unique_ids"
    /\ call_result' = get_unique_ids(call_mask)
    /\ UNCHANGED <<call_mask, call_ids>>

CallGetUpdatedMask ==
    /\ call = "none"
    /\ call' = "get_updated_mask"
    /\ call_result' = get_updated_mask(call_mask, call_ids)
    /\ UNCHANGED <<call_mask, call_ids>>

\* ------------------------------------- calls of get_upscaled_mask_basic
\* up_array: the mask passed, an array with a shape; up_factor: the
\* downsampling_factor of the session; up_call: "none" before the call, then
\* "returned" or "AxisError"; up_result: the array returned.
VARIABLES up_array, up_factor, up_call, up_result

gvars == <<up_array, up_factor, up_call, up_result>>

\* .repeat(N, axis=1) raises AxisError on an array of one axis
upscale_raises(arr) == Len(arr.shape) < 2

CallGetUpscaledMaskBasic ==
    /\ up_call = "none"
    /\ up_call' = IF upscale_raises(up_array) THEN "AxisError" ELSE "returned"
    /\ up_result' = IF upscale_raises(up_array) THEN None
                     ELSE Some(get_upscaled_mask_basic(up_array, up_factor))
    /\ UNCHANGED <<up_array, up_factor>>

\* ------------------------------------------------------- ProcessingStep
\* debug, overwrite, intermediate_output: the flags of the step;
\* directory_exists: self.directory is a directory on disk; config_cache:
\* "cache" is a key of self.config; has_process: the class of the step defines
\* a callable process; _tmp_dir: the attribute (None when the step has no such
\* attribute); tmp_on_disk: the temporary directory exists on disk;
\* step_call: the method called last; step_outcome: how it ended;
\* cleared: the last call went through clear_temp_dir.
VARIABLES debug, overwrite, intermediate_output, directory_exists,
          config_cache, has_process, _tmp_dir, tmp_on_disk,
          step_call, step_outcome, cleared

tvars == <<debug, overwrite, intermediate_output, directory_exists,
           config_cache, has_process, _tmp_dir, tmp_on_disk,
           step_call, step_outcome, cleared>>

Step ==
    [debug |-> debug, overwrite |-> overwrite,
     intermediate_output |-> intermediate_output,
     directory_exists |-> directory_exists, _tmp_dir |-> _tmp_dir,
     tmp_on_disk |-> tmp_on_disk, outcome |-> "none", cleared |-> FALSE]

\* create_temp_dir: a TemporaryDirectory only if "cache" is in the config
create_temp_dir(step, cache) ==
    IF cache
    THEN [step EXCEPT !._tmp_dir = Some("TemporaryDirectory"),
                      !.tmp_on_disk = TRUE]
    ELSE step

\* ProcessingStep.__init__
ProcessingStep_attributes(d, i, o, dir, cache) ==
    create_temp_dir(
        [debug |-> d, overwrite |-> o, intermediate_output |-> i,
         directory_exists |-> dir, _tmp_dir |-> None, tmp_on_disk |-> FALSE,
         outcome |-> "none", cleared |-> FALSE], cache)

\* clear_temp_dir: shutil.rmtree is handed the TemporaryDirectory object, not
\* its name, and raises TypeError before anything is removed
clear_temp_dir(step) ==
    IF step._tmp_dir # None
    THEN [step EXCEPT !.outcome = "TypeError", !.cleared = TRUE]
    ELSE [step EXCEPT !.outcome = "returned", !.cleared = TRUE]

\* the flags of a call override those of the step unless they are None
set_flags(step, d, i, o) ==
    [step EXCEPT !.debug = IF d # None THEN Val(d) ELSE @,
                 !.overwrite = IF o # None THEN Val(o) ELSE @,
                 !.intermediate_output = IF i # None THEN Val(i) ELSE @]

\* rmtree if overwrite, then makedirs if missing: the directory exists
prepare_directory(step) == [step EXCEPT !.directory_exists = TRUE]

\* ProcessingStep.__call__: the result of process is returned at once, and
\* clear_temp_dir is reached only when the step has no process method
ProcessingStep_call(step, d, i, o, process) ==
    LET prepared == prepare_directory(set_flags(step, d, i, o)) IN
    IF prepared._tmp_dir = None
    THEN [prepared EXCEPT !.outcome = "AttributeError"]
    ELSE IF ~prepared.tmp_on_disk
    THEN [prepared EXCEPT !.outcome = "SystemExit"]
    ELSE IF process
    THEN [prepared EXCEPT !.outcome = "returned"]
    ELSE clear_temp_dir(prepared)

StepStore(step) ==
    /\ debug' = step.debug
    /\ overwrite' = step.overwrite
    /\ intermediate_output' = step.intermediate_output
    /\ directory_exists' = step.directory_exists
    /\ _tmp_dir' = step._tmp_dir
    /\ tmp_on_disk' = step.tmp_on_disk
    /\ step_outcome' = step.outcome
    /\ cleared' = step.cleared
    /\ UNCHANGED <<config_cache, has_process>>

Flags == {None, Some(TRUE), Some(FALSE)}

StepCall(d, i, o) ==
    /\ step_outcome # "SystemExit"
    /\ step_call' = "__call__"
    /\ StepStore(ProcessingStep_call(Step, d, i, o, has_process))

StepClearTempDir ==
    /\ step_outcome # "SystemExit"
    /\ step_call' = "clear_temp_dir"
    /\ StepStore(clear_temp_dir(Step))

\* --------------------------------------------- SizeFilter._get_index_population
\* population_to_keep: the attribute of the session; means, weights: the
\* arguments of the call; population_call: "none" before the call, then
\* "returned" or "UnboundLocalError"; idx: the index returned (0-based).
VARIABLES population_to_keep, means, weights, population_call, idx

pvars == <<population_to_keep, means, weights, population_call, idx>>

RECURSIVE argbest(_, _, _, _)
\* the scan of np.argmax / np.argmin over a[k..]: the 1-based position of the
\* first element no later element beats; sign 1: the larger element beats,
\* sign -1: the smaller one
argbest(a, k, best, sign) ==
    IF k > Len(a) THEN best
    ELSE argbest(a, k + 1, IF sign * a[k] > sign * a[best] THEN k ELSE best, sign)

\* np.argmax(a), np.argmin(a): 0-based, the first position of the extreme
np_argmax(a) == argbest(a, 2, 1, 1) - 1
np_argmin(a) == argbest(a, 2, 1, -1) - 1

\* the mutated body: the two policies on the weights select by the means
_get_index_population_by_means(policy, m, w) ==
    IF policy \in {"largest", "mostcommon"} THEN Some(np_argmax(m))
    ELSE IF policy \in {"smallest", "leastcommon"} THEN Some(np_argmin(m))
    ELSE None

\* _get_index_population(means, weights) of a session with
\* population_to_keep = policy: Some(idx), or None when no branch assigns idx
\* and `return idx` raises UnboundLocalError
_get_index_population(policy, m, w) ==
    IF policy = "largest" THEN Some(np_argmax(m))
    ELSE IF policy = "smallest" THEN Some(np_argmin(m))
    ELSE IF policy = "mostcommon" THEN Some(np_argmax(w))
    ELSE IF policy = "leastcommon" THEN Some(np_argmin(w))
    ELSE None

CallGetIndexPopulation ==
    LET r == _get_index_population(population_to_keep, means, weights)
    IN /\ population_call = "none"
       /\ population_call' = IF r = None THEN "UnboundLocalError" ELSE "returned"
       /\ idx' = r
       /\ UNCHANGED <<population_to_keep, means, weights>>

\* ------------------------------------------------ combine_datasets_balanced
\* (src/src/sparcscore/ml/utils.py).  A dataset is its length: the function
\* reads nothing else of it, and random_split(dataset, sizes) returns subsets
\* of exactly the sizes given.  A combined dataset is the list of the sizes
\* of the subsets it concatenates, one per dataset, in the order of the input.
\* elements, class_labels, train_per_class, val_per_class, test_per_class: the
\* arguments of the call; combined: "none" before the call, then "returned"
\* or "ValueError"; train_dataset, val_dataset, test_dataset: what it returned.
VARIABLES elements, class_labels, train_per_class, val_per_class, test_per_class,
          combined, train_dataset, val_dataset, test_dataset

bvars == <<elements, class_labels, train_per_class, val_per_class, test_per_class,
           combined, train_dataset, val_dataset, test_dataset>>

\* np.sum(mat, axis=0)[c]: the samples of all datasets labeled c
cells_per_class(lens, labels, c) ==
    np_sum([i \in 1..Len(lens) |-> IF labels[i] = c THEN lens[i] ELSE 0])

\* mat has the columns 0..max(class_labels)
SetMax(S) == CHOOSE x \in S : \A y \in S : x >= y
mat_columns(labels) == 0..SetMax(Range(labels))

\* normalized = mat / cells_per_class divides 0 by 0 in every row of a column
\* without samples: the row sums dataset_fraction are then all NaN
fraction_is_nan(lens, labels) ==
    \E c \in mat_columns(labels) : cells_per_class(lens, labels, c) = 0

\* np.sum(pd.Series(class_labels).value_counts() > 1) == 0
no_label_twice(labels) ==
    \A i, j \in 1..Len(labels) : labels[i] = labels[j] => i = j

\* int(np.round(num / den)): np.round rounds a half to the even neighbour
np_round(num, den) ==
    LET q == num \div den
        r == num % den
    IN IF 2 * r < den THEN q
       ELSE IF 2 * r > den THEN q + 1
       ELSE IF q % 2 = 0 THEN q ELSE q + 1

\* the size of the subset taken from dataset i for a split of per_class
\* samples per class: per_class itself when no label occurs twice, else
\* int(np.round(per_class * fraction)) with fraction = len(dataset) /
\* cells_per_class[label], in exact arithmetic
subset_size(lens, labels, i, per_class) ==
    IF no_label_twice(labels) THEN per_class
    ELSE np_round(per_class * lens[i], cells_per_class(lens, labels, labels[i]))

\* residual_size of dataset i
residual_size(lens, labels, i, train, val, test) ==
    lens[i] - subset_size(lens, labels, i, train)
            - subset_size(lens, labels, i, test)
            - subset_size(lens, labels, i, val)

\* whether the call raises ValueError: int() of a NaN size, or a negative
\* residual_size for some dataset
raises_ValueError(lens, labels, train, val, test) ==
    \/ ~no_label_twice(labels) /\ fraction_is_nan(lens, labels)
    \/ \E i \in 1..Len(lens) : residual_size(lens, labels, i, train, val, test) < 0

\* combine_datasets_balanced(list_of_datasets, class_labels, train_per_class,
\* val_per_class, test_per_class)
combine_datasets_balanced(lens, labels, train, val, test) ==
    IF raises_ValueError(lens, labels, train, val, test)
    THEN [status |-> "ValueError", train |-> << >>, val |-> << >>, test |-> << >>]
    ELSE [status |-> "returned",
          train |-> [i \in 1..Len(lens) |-> subset_size(lens, labels, i, train)],
          val |-> [i \in 1..Len(lens) |-> subset_size(lens, labels, i, val)],
          test |-> [i \in 1..Len(lens) |-> subset_size(lens, labels, i, test)]]

CallCombineDatasetsBalanced ==
    LET r == combine_datasets_balanced(elements, class_labels, train_per_class,
                                       val_per_class, test_per_class)
    IN /\ combined = "none"
       /\ combined' = r.status
       /\ train_dataset' = r.train
       /\ val_dataset' = r.val
       /\ test_dataset' = r.test
       /\ UNCHANGED <<elements, class_labels, train_per_class, val_per_class,
                      test_per_class>>

\* ---------------------------------------------------------- specifications
vars == <<mvars, svars, uvars, bvars, pvars, gvars, tvars>>

\* a constructed MatchNucleusCytosolIds session with overlap threshold t and
\* downsampling factor f (None: no downsampling), and no SizeFilter yet
Constructed(t, f) ==
    /\ filtering_threshold = MatchNucleusCytosolIds_attributes(t, f).filtering_threshold
    /\ downsampling_factor = MatchNucleusCytosolIds_attributes(t, f).downsampling_factor
    /\ nucleus_mask = MatchNucleusCytosolIds_attributes(t, f).nucleus_mask
    /\ cytosol_mask = MatchNucleusCytosolIds_attributes(t, f).cytosol_mask
    /\ _nucleus_lookup_dict = MatchNucleusCytosolIds_attributes(t, f)._nucleus_lookup_dict
    /\ nuclei_discard_list = MatchNucleusCytosolIds_attributes(t, f).nuclei_discard_list
    /\ cytosol_discard_list = MatchNucleusCytosolIds_attributes(t, f).cytosol_discard_list
    /\ cytosol_count = MatchNucleusCytosolIds_attributes(t, f).cytosol_count
    /\ nucleus_lookup_dict = MatchNucleusCytosolIds_attributes(t, f).nucleus_lookup_dict
    /\ error = MatchNucleusCytosolIds_attributes(t, f).error
    /\ match_call = "none"
    /\ arg_shapes = << >>
    /\ ret_nucleus = None
    /\ ret_cytosol = None
    /\ args_intact = TRUE
    /\ args_differ = FALSE
    /\ session = "none"
    /\ given_threshold = None
    /\ filter_threshold = None
    /\ filter_lower = TRUE
    /\ filter_upper = TRUE
    /\ ids_to_remove = None
    /\ mask = None
    /\ ids = << >>
    /\ arg_mask = None
    /\ ret_mask = None
    /\ raised = FALSE
    /\ fitted = FALSE

\* no utility call is under way
NoUtilCall ==
    /\ call = "none"
    /\ call_mask = << >>
    /\ call_ids = << >>
    /\ call_result = << >>

\* no call of combine_datasets_balanced is under way
NoCombineCall ==
    /\ elements = << >>
    /\ class_labels = << >>
    /\ train_per_class = 0
    /\ val_per_class = 0
    /\ test_per_class = 0
    /\ combined = "none"
    /\ train_dataset = << >>
    /\ val_dataset = << >>
    /\ test_dataset = << >>

\* no call of _get_index_population is under way
NoPopulationCall ==
    /\ population_to_keep = "largest"
    /\ means = << >>
    /\ weights = << >>
    /\ population_call = "none"
    /\ idx = None

\* no call of get_upscaled_mask_basic is under way
NoUpscaleCall ==
    /\ up_array = [shape |-> << >>, data |-> << >>]
    /\ up_factor = DownsamplingFactor
    /\ up_call = "none"
    /\ up_result = None

\* no ProcessingStep exists
NoStepCall ==
    /\ debug = FALSE
    /\ overwrite = FALSE
    /\ intermediate_output = FALSE
    /\ directory_exists = FALSE
    /\ config_cache = FALSE
    /\ has_process = FALSE
    /\ _tmp_dir = None
    /\ tmp_on_disk = FALSE
    /\ step_call = "none"
    /\ step_outcome = "none"
    /\ cleared = FALSE

NoCall ==
    NoUtilCall /\ NoCombineCall /\ NoPopulationCall /\ NoUpscaleCall /\ NoStepCall

\* what a caller may pass to SizeFilter.filter: any mask to a session without
\* a mask; to a loaded session the mask it holds, the mask it returned last,
\* or a uniform mask
SizeCallMasks ==
    IF mask = None THEN SortedMasks
    ELSE {Val(mask)} \cup UniformMasks \cup (IF ret_mask = None THEN {} ELSE {Val(ret_mask)})

\* one MatchNucleusCytosolIds session
MatchInit ==
    /\ \E t \in Thresholds, f \in {None, Some(DownsamplingFactor)} : Constructed(t, f)
    /\ NoCall

MatchNext ==
    \/ \E p \in CallMasks : MatchGetLookupTable(p[1], p[2]) /\ UNCHANGED <<svars, uvars, bvars, pvars, gvars, tvars>>
    \/ \E p \in CallMasks : MatchFilter(p[1], p[2]) /\ UNCHANGED <<svars, uvars, bvars, pvars, gvars, tvars>>

SpecMatch == MatchInit /\ [][MatchNext]_vars

\* one MatchNucleusCytosolIds session (no downsampling) that is first given a
\* nucleus mask and a cytosol mask of different shapes: the cytosol mask is
\* one pixel shorter or one pixel longer than the nucleus mask.  A call that
\* raised IndexError is retried while the discard list, which every retry
\* extends, holds at most NPix ids.
ShapePairs ==
    [1..(NPix - 2) -> Ids] \X ([1..(NPix - 3) -> Ids] \cup [1..(NPix - 1) -> Ids])
ShapeCallMasks ==
    IF nucleus_mask = None THEN ShapePairs
    ELSE IF Len(nuclei_discard_list) <= NPix THEN CallMasks
    ELSE {}

ShapeInit ==
    /\ \E t \in Thresholds : Constructed(t, None)
    /\ NoCall

ShapeNext ==
    \/ \E p \in ShapeCallMasks : MatchGetLookupTable(p[1], p[2]) /\ UNCHANGED <<svars, uvars, bvars, pvars, gvars, tvars>>
    \/ \E p \in ShapeCallMasks : MatchFilter(p[1], p[2]) /\ UNCHANGED <<svars, uvars, bvars, pvars, gvars, tvars>>

SpecShape == ShapeInit /\ [][ShapeNext]_vars

\* one SizeFilter session; the matcher stays as constructed with its default
\* filtering_threshold=0.5
SizeInit == Constructed(<<1, 2>>, None) /\ NoCall

SizeNext ==
    \/ \E t \in {None} \cup {Some(u) : u \in ThresholdPairs}, lower, upper \in BOOLEAN :
          SizeFilterNew(t, lower, upper) /\ UNCHANGED <<mvars, uvars, bvars, pvars, gvars, tvars>>
    \/ \E m \in SizeCallMasks : SizeFilterFilter(m) /\ UNCHANGED <<mvars, uvars, bvars, pvars, gvars, tvars>>
    \/ \E m \in SizeCallMasks : SizeFilterFitError(m) /\ UNCHANGED <<mvars, uvars, bvars, pvars, gvars, tvars>>

SpecSize == SizeInit /\ [][SizeNext]_vars

\* one call of a mask utility, on any mask and any list of ids
IdLists == {SortSet(S) : S \in SUBSET Ids}

UtilInit ==
    /\ Constructed(<<1, 2>>, None)
    /\ call = "none"
    /\ call_mask \in Masks
    /\ call_ids \in IdLists
    /\ call_result = << >>
    /\ NoCombineCall
    /\ NoPopulationCall
    /\ NoUpscaleCall
    /\ NoStepCall

UtilNext ==
    \/ CallGetUniqueIds /\ UNCHANGED <<mvars, svars, bvars, pvars, gvars, tvars>>
    \/ CallGetUpdatedMask /\ UNCHANGED <<mvars, svars, bvars, pvars, gvars, tvars>>

SpecUtil == UtilInit /\ [][UtilNext]_vars

\* one call of combine_datasets_balanced, on any list of datasets
DatasetLists ==
    UNION {[1..n -> 0..MaxLen] : n \in 1..MaxDatasets}

CombineInit ==
    /\ Constructed(<<1, 2>>, None)
    /\ NoUtilCall
    /\ NoPopulationCall
    /\ NoUpscaleCall
    /\ NoStepCall
    /\ elements \in DatasetLists
    /\ class_labels \in [1..Len(elements) -> 0..MaxLabel]
    /\ train_per_class \in 0..MaxPerClass
    /\ val_per_class \in 0..MaxPerClass
    /\ test_per_class \in 0..MaxPerClass
    /\ combined = "none"
    /\ train_dataset = << >>
    /\ val_dataset = << >>
    /\ test_dataset = << >>

CombineNext == CallCombineDatasetsBalanced /\ UNCHANGED <<mvars, svars, uvars, pvars, gvars, tvars>>

SpecCombine == CombineInit /\ [][CombineNext]_vars

\* one call of _get_index_population, on the means and the weights of any
\* mixture of 1..MaxComponents components and with any population_to_keep,
\* "other" standing for a string that is none of the four policies
PopulationPolicies == {"largest", "smallest", "mostcommon", "leastcommon", "other"}
PopulationInit ==
    /\ Constructed(<<1, 2>>, None)
    /\ NoUtilCall
    /\ NoCombineCall
    /\ NoUpscaleCall
    /\ NoStepCall
    /\ population_to_keep \in PopulationPolicies
    /\ \E n \in 1..MaxComponents :
          /\ means \in [1..n -> 0..MaxMeasure]
          /\ weights \in [1..n -> 0..MaxMeasure]
    /\ population_call = "none"
    /\ idx = None

PopulationNext == CallGetIndexPopulation /\ UNCHANGED <<mvars, svars, uvars, bvars, gvars, tvars>>

SpecPopulation == PopulationInit /\ [][PopulationNext]_vars

\* one call of get_upscaled_mask_basic (erosion_dilation=False) on any mask
\* of one, two or three axes, every axis of extent 1 or 2, with at most NPix
\* pixels
UpscaleShapes ==
    {q \in UNION {[1..n -> 1..2] : n \in 1..3} : Product(q) <= NPix}
UpscaleInit ==
    /\ Constructed(<<1, 2>>, None)
    /\ NoUtilCall
    /\ NoCombineCall
    /\ NoPopulationCall
    /\ NoStepCall
    /\ \E q \in UpscaleShapes :
          up_array \in [shape : {q}, data : [1..Product(q) -> Ids]]
    /\ up_factor = DownsamplingFactor
    /\ up_call = "none"
    /\ up_result = None

UpscaleNext ==
    CallGetUpscaledMaskBasic /\ UNCHANGED <<mvars, svars, uvars, bvars, pvars, tvars>>

SpecUpscale == UpscaleInit /\ [][UpscaleNext]_vars

\* a ProcessingStep of any flags, with or without a cache directory in its
\* config and with or without a process method, called any number of times
StepInit ==
    /\ Constructed(<<1, 2>>, None)
    /\ NoUtilCall
    /\ NoCombineCall
    /\ NoPopulationCall
    /\ NoUpscaleCall
    /\ config_cache \in BOOLEAN
    /\ has_process \in BOOLEAN
    /\ \E d \in BOOLEAN, i \in BOOLEAN, o \in BOOLEAN, dir \in BOOLEAN :
          LET step == ProcessingStep_attributes(d, i, o, dir, config_cache) IN
          /\ debug = step.debug
          /\ overwrite = step.overwrite
          /\ intermediate_output = step.intermediate_output
          /\ directory_exists = step.directory_exists
          /\ _tmp_dir = step._tmp_dir
          /\ tmp_on_disk = step.tmp_on_disk
          /\ step_outcome = step.outcome
          /\ cleared = step.cleared
    /\ step_call = "none"

StepNext ==
    \/ /\ \E d \in Flags, i \in Flags, o \in Flags : StepCall(d, i, o)
       /\ UNCHANGED <<mvars, svars, uvars, bvars, pvars, gvars>>
    \/ /\ StepClearTempDir
       /\ UNCHANGED <<mvars, svars, uvars, bvars, pvars, gvars>>

SpecStep == StepInit /\ [][StepNext]_vars

\* ------------------------------------------- claims on the identity matcher
NonZero(m) == Range(m) \ {0}
PixelsOf(m, v) == {i \in 1..Len(m) : m[i] = v}
Published == nucleus_lookup_dict # None
Filtered == ret_nucleus # None
LookupKeys == Range(DictKeys(Val(nucleus_lookup_dict)))
LookupValues == Range(DictValues(Val(nucleus_lookup_dict)))

\* C1: the published lookup table is injective (no cytosol id is the value of
\* two nucleus keys, no key occurs twice), every key is an id of the loaded
\* nucleus mask and every value an id of the loaded cytosol mask.
C1_LookupInjective ==
    Published =>
        LET d == Val(nucleus_lookup_dict)
        IN /\ \A i, j \in 1..Len(d) : (d[i][1] = d[j][1] \/ d[i][2] = d[j][2]) => i = j
           /\ LookupKeys \subseteq NonZero(Val(nucleus_mask))
           /\ LookupValues \subseteq NonZero(Val(cytosol_mask))
           /\ _nucleus_lookup_dict = d

\* C1 witness: a published table that kept a pair, next to a cytosol that was
\* discarded because two nuclei were matched to it
C1_Witness ==
    /\ Published
    /\ Len(Val(nucleus_lookup_dict)) >= 1
    /\ \E c \in Range(cytosol_discard_list) :
          Cardinality({n \in NonZero(Val(nucleus_mask)) :
                          matched_cytosol(Self, n) = Some(c)}) >= 2

\* C2: after filter, the nonzero ids of the output nucleus mask, the nonzero
\* ids of the output cytosol mask and the keys of the lookup table are the
\* same set.
C2_OutputsAgree ==
    Filtered =>
        /\ NonZero(Val(ret_nucleus)) = LookupKeys
        /\ NonZero(Val(ret_cytosol)) = LookupKeys

\* C3: after filter, for every lookup entry (n -> c) the pixels labeled n in
\* the output cytosol mask are exactly the pixels labeled c in the input
\* cytosol mask.
C3_RelabelExact ==
    Filtered =>
        \A e \in Range(Val(nucleus_lookup_dict)) :
            PixelsOf(Val(ret_cytosol), e[1]) = PixelsOf(Val(cytosol_mask), e[2])

\* the nucleus ids of the loaded mask with a pixel over cytosol background
TouchesBackground(n) ==
    \E i \in PixelsOf(Val(nucleus_mask), n) : Val(cytosol_mask)[i] = 0

\* C4: every nucleus id with at least one pixel over cytosol label 0 is in
\* the nuclei discard set, is no key of the lookup table and is absent from
\* the output nucleus mask.
C4_BackgroundNucleusDiscarded ==
    Published =>
        \A n \in NonZero(Val(nucleus_mask)) :
            TouchesBackground(n) =>
                /\ InList(n, nuclei_discard_list)
                /\ n \notin LookupKeys
                /\ Filtered => n \notin NonZero(Val(ret_nucleus))

\* the nuclei the match step maps to cytosol c
MatchedTo(c) ==
    {n \in Range(get_unique_ids(Val(nucleus_mask))) : matched_cytosol(Self, n) = Some(c)}
Multinucleated(c) == Cardinality(MatchedTo(c)) >= 2

OutOfRange(m, t, lower, upper) ==
    {v \in NonZero(m) :
        \/ lower /\ Cardinality(PixelsOf(m, v)) < t[1]
        \/ upper /\ Cardinality(PixelsOf(m, v)) > t[2]}
Zeroed(m, S) == [i \in 1..Len(m) |-> IF m[i] \in S THEN 0 ELSE m[i]]
\* the session was given an explicit threshold, its latest call returned, and
\* the argument of that call is the mask the session holds: the call is the
\* first one or gives what the first one gave
FirstResult == given_threshold # None /\ ret_mask # None /\ arg_mask = mask

\* C6: filter on a fresh session zeroes exactly the ids whose pixel count is
\* < lo (lower tail enabled) or > hi (upper tail enabled) and leaves every
\* other pixel unchanged.
C6_RemovesExactlyOutOfRange ==
    FirstResult =>
        Val(ret_mask) =
            Zeroed(Val(arg_mask),
                   OutOfRange(Val(arg_mask), Val(given_threshold), filter_lower, filter_upper))

\* C7: filtering the returned mask again, on a fresh session with the same
\* threshold and tails, returns it unchanged.
C7_Idempotent ==
    FirstResult =>
        filter_fresh(Val(given_threshold), filter_lower, filter_upper, Val(ret_mask))
            = Val(ret_mask)

\* C8: the constructor raises ValueError exactly when both tails are
\* disabled, and no filter call ever runs on such a session.
C8_ConfigurationError ==
    /\ session # "none" => (session = "ValueError" <=> (~filter_lower /\ ~filter_upper))
    /\ session = "ValueError" =>
          /\ ids_to_remove = None
          /\ mask = None
          /\ arg_mask = None
          /\ ret_mask = None

\* C8 witness: the constructor was called with both tails disabled
C8_Witness == session # "none" /\ ~filter_lower /\ ~filter_upper

\* C9: once the first filter call has set the discard list, every later call
\* keeps filter_threshold, ids_to_remove and the cached mask, and returns its
\* argument with exactly the cached ids zeroed.
C9_CachedAfterFirstCall ==
    [][ids_to_remove # None =>
          /\ filter_threshold' = filter_threshold
          /\ ids_to_remove' = ids_to_remove
          /\ mask' = mask
          /\ ret_mask' = Some(Zeroed(Val(arg_mask'), Range(Val(ids_to_remove))))]_vars

\* C9 witness: a later call was given another mask than the cached one and
\* zeroed some of its pixels
C9_Witness ==
    /\ ids_to_remove # None
    /\ ret_mask # None
    /\ arg_mask # mask
    /\ ret_mask # arg_mask

\* C19: a session given an explicit filter_threshold never runs the
\* automatic threshold determination and keeps the given pair through every
\* filter call; the determination runs only in sessions constructed without
\* a threshold.
C19_ExplicitThresholdKept ==
    /\ (session = "ready" /\ given_threshold # None) =>
          /\ filter_threshold = given_threshold
          /\ ~fitted
          /\ ~raised
    /\ fitted => given_threshold = None

\* C19 witness: a session with an explicit threshold has answered a second
\* call, on another mask than the one it holds
C19_Witness ==
    /\ given_threshold # None
    /\ ret_mask # None
    /\ arg_mask # mask

\* ---------------------------------------------- claims on the mask utilities
\* C10: get_unique_ids never returns 0.
C10_NoBackgroundId ==
    call = "get_unique_ids" => ~InList(0, call_result)

\* C10 witness: get_unique_ids was called on a mask with background pixels
\* and on its return value there is an id
C10_Witness ==
    /\ call = "get_unique_ids"
    /\ InList(0, call_mask)
    /\ call_result # << >>

\* C11: get_unique_ids returns exactly the distinct positive values of the
\* mask, the smallest one included when the mask has no background pixel.
C11_UniqueIdsExact ==
    call = "get_unique_ids" => Range(call_result) = NonZero(call_mask)

\* C12: get_updated_mask returns a mask of the same length that is 0 exactly
\* at the pixels whose original value is in ids or was 0 already, and equal to
\* the original at every other pixel; with no ids it returns the mask.
C12_ZeroesExactlyIds ==
    call = "get_updated_mask" =>
        /\ Len(call_result) = Len(call_mask)
        /\ PixelsOf(call_result, 0) =
              {i \in 1..Len(call_mask) : call_mask[i] \in Range(call_ids) \cup {0}}
        /\ \A i \in 1..Len(call_mask) : call_result[i] \in {0, call_mask[i]}
        /\ call_ids = << >> => call_result = call_mask

\* C12 witness: get_updated_mask zeroed some object of the mask and kept
\* another one
C12_Witness ==
    /\ call = "get_updated_mask"
    /\ NonZero(call_mask) \cap Range(call_ids) # {}
    /\ NonZero(call_result) # {}

\* the cytosol labels under the footprint of nucleus n whose share of the
\* pixels of n is at least the overlap threshold
Footprint(n) == PixelsOf(Val(nucleus_mask), n)
ReachingLabels(n) ==
    {c \in {Val(cytosol_mask)[i] : i \in Footprint(n)} :
        Cardinality({i \in Footprint(n) : Val(cytosol_mask)[i] = c}) * filtering_threshold[2]
            >= filtering_threshold[1] * Cardinality(Footprint(n))}
\* the session with its masks, before any nucleus is matched
BeforeMatching ==
    [Self EXCEPT !._nucleus_lookup_dict = << >>, !.nuclei_discard_list = << >>]

C17_OrphansDiscarded ==
    Published =>
        \A c \in NonZero(Val(cytosol_mask)) :
            MatchedTo(c) = {} =>
                /\ InList(c, cytosol_discard_list)
                /\ Filtered =>
                      \A i \in PixelsOf(Val(cytosol_mask), c) : Val(ret_cytosol)[i] = 0

NoDuplicates(l) == \A i, j \in 1..Len(l) : l[i] = l[j] => i = j

\* C18: after get_lookup_table both discard lists are duplicate-free, and
\* every lookup entry (n, c) has n not in the nuclei discard list, c not in
\* the cytosol discard list, no pixel of n over cytosol background, and at
\* least the threshold share of the pixels of n inside c.
C18_CleanLookup ==
    Published =>
        /\ NoDuplicates(nuclei_discard_list)
        /\ NoDuplicates(cytosol_discard_list)
        /\ \A e \in Range(Val(nucleus_lookup_dict)) :
              /\ ~InList(e[1], nuclei_discard_list)
              /\ ~InList(e[2], cytosol_discard_list)
              /\ ~TouchesBackground(e[1])
              /\ Cardinality(Footprint(e[1]) \cap PixelsOf(Val(cytosol_mask), e[2]))
                    * filtering_threshold[2]
                    >= filtering_threshold[1] * Cardinality(Footprint(e[1]))

\* C18 witness: a lookup table with an entry left after a cytosol with two
\* nuclei was entered in the discard lists
C18_Witness ==
    /\ Published
    /\ Val(nucleus_lookup_dict) # << >>
    /\ \E c \in Range(cytosol_discard_list) : Multinucleated(c)

\* ------------------------------ claims on downsampling and on mask shapes
\* C13: with a downsampling factor configured, filter returns the filtered
\* nucleus mask of the session upscaled, and the filtered and relabeled
\* cytosol mask of the session upscaled.
C13_DownsampledFilterUpscales ==
    (downsampling_factor # None /\ match_call = "filter") =>
        /\ error = "none"
        /\ ret_nucleus =
              Some(upscaled(Self, get_updated_mask(Val(nucleus_mask), nuclei_discard_list)))
        /\ ret_cytosol =
              Some(upscaled(Self, _get_updated_cytosol_mask(Self, Val(cytosol_mask)).ret))

\* C14: a filter call given a nucleus mask and a cytosol mask of different
\* shapes ends in an error and returns no masks.
C14_ShapeMismatchRejected ==
    (match_call = "filter" /\ arg_shapes[1] # arg_shapes[2]) =>
        /\ error # "none"
        /\ ret_nucleus = None
        /\ ret_cytosol = None

\* ------------------------------------- claims on combine_datasets_balanced
\* the samples of class c in a combined dataset
SamplesOfClass(combined_dataset, c) ==
    np_sum([i \in 1..Len(combined_dataset) |->
                IF class_labels[i] = c THEN combined_dataset[i] ELSE 0])

\* C15: combine_datasets_balanced either raises ValueError or returns splits
\* in which every class label has exactly train_per_class, val_per_class and
\* test_per_class samples.
C15_BalancedSplits ==
    combined # "none" =>
        \/ combined = "ValueError"
        \/ /\ combined = "returned"
           /\ \A c \in Range(class_labels) :
                 /\ SamplesOfClass(train_dataset, c) = train_per_class
                 /\ SamplesOfClass(val_dataset, c) = val_per_class
                 /\ SamplesOfClass(test_dataset, c) = test_per_class

\* ------------------------------------------ claims on _get_index_population
\* C20: _get_index_population returns the index of a component with the
\* largest mean for "largest", the smallest mean for "smallest", the largest
\* weight for "mostcommon" and the smallest weight for "leastcommon".
C20_PopulationPolicy ==
    (population_call # "none" /\ population_to_keep # "other") =>
        /\ population_call = "returned"
        /\ Val(idx) \in 0..(Len(means) - 1)
        /\ LET k == Val(idx) + 1
           IN /\ population_to_keep = "largest" => \A j \in 1..Len(means) : means[j] <= means[k]
              /\ population_to_keep = "smallest" => \A j \in 1..Len(means) : means[j] >= means[k]
              /\ population_to_keep = "mostcommon" => \A j \in 1..Len(weights) : weights[j] <= weights[k]
              /\ population_to_keep = "leastcommon" => \A j \in 1..Len(weights) : weights[j] >= weights[k]

\* C20 witness: a call with "mostcommon" on a mixture whose component of the
\* largest weight is not a component of the largest mean
C20_Witness ==
    /\ population_call = "returned"
    /\ population_to_keep = "mostcommon"
    /\ \E j \in 1..Len(means) : means[j] > means[Val(idx) + 1]

\* -------------------------------------- claims on get_upscaled_mask_basic
\* the coordinates (0-based, one per axis) of the positions of an array
CoordsOf(shape) ==
    {c \in [1..Len(shape) -> 0..(2 * DownsamplingFactor)] :
        \A a \in 1..Len(shape) : c[a] < shape[a]}
At(arr, c) == arr.data[1 + FlatFrom(arr.shape, c, 1)]

\* C22: upscaling a mask of two or three axes returns a mask whose extent
\* along every axis is N times the extent of the input and whose value at any
\* coordinate is the input value at the coordinate integer-divided by N.
C22_UpscaleEveryAxis ==
    (up_call # "none" /\ Len(up_array.shape) \in {2, 3}) =>
        /\ up_call = "returned"
        /\ Val(up_result).shape = [a \in 1..Len(up_array.shape) |-> up_factor * up_array.shape[a]]
        /\ \A c \in CoordsOf(Val(up_result).shape) :
              At(Val(up_result), c) =
                  At(up_array, [a \in 1..Len(c) |-> c[a] \div up_factor])

\* C22 restricted to masks of two axes
C22_UpscaleTwoAxes ==
    (up_call # "none" /\ Len(up_array.shape) = 2) =>
        /\ up_call = "returned"
        /\ Val(up_result).shape = [a \in 1..Len(up_array.shape) |-> up_factor * up_array.shape[a]]
        /\ \A c \in CoordsOf(Val(up_result).shape) :
              At(Val(up_result), c) =
                  At(up_array, [a \in 1..Len(c) |-> c[a] \div up_factor])

\* -------------------------------------------------- claims on ProcessingStep
\* C23: when a step that has a temporary directory and a process method is
\* called and __call__ returns, clear_temp_dir has run and the temporary
\* directory is removed.
C23_TempDirClearedAfterCall ==
    (config_cache /\ has_process /\ step_call = "__call__"
        /\ step_outcome = "returned") =>
        (cleared /\ ~tmp_on_disk)

\* ------------------------------------------ claims on repeated filter calls
\* C24: a filter call of a session without downsampling leaves the arrays the
\* caller passed as they were, and leaves the masks the session holds as they
\* were: a held mask never changes, and the mask a call loads is the mask
\* that was passed.
C24_MasksNeverWritten ==
    [][(match_call' = "filter" /\ downsampling_factor = None) =>
            /\ args_intact'
            /\ nucleus_mask # None => nucleus_mask' = nucleus_mask
            /\ cytosol_mask # None => cytosol_mask' = cytosol_mask]_vars

\* a filter call has returned a cytosol mask in which it rewrote an id, and
\* the mask the session holds is as the caller passed it
C24_Witness ==
    /\ match_call = "filter"
    /\ downsampling_factor = None
    /\ Filtered
    /\ args_intact
    /\ ~args_differ
    /\ \E i \in 1..Len(Val(ret_cytosol)) :
          Val(ret_cytosol)[i] \notin {0, Val(cytosol_mask)[i]}

\* under SpecSize: the mask a SizeFilter session holds never changes and is
\* the mask its first filter call was given
C24_SizeMaskNeverWritten ==
    [][/\ mask # None => mask' = mask
       /\ (mask = None /\ mask' # None) => mask' = arg_mask']_vars

\* what filter returns when it is the first call of a session constructed
\* like this one and is given the masks this session holds
FirstFilter ==
    LET self == MatchNucleusCytosolIds_filter(
                    MatchNucleusCytosolIds_attributes(filtering_threshold, None),
                    Val(nucleus_mask), Val(cytosol_mask))
    IN <<_get_updated_masks(self)[1], _get_updated_masks(self)[2]>>

\* C25: a filter call on a session (no downsampling) that has its lookup
\* table leaves the lookup table and both discard lists as they were and
\* returns the pair of masks the first call returned, the pair of the
\* previous filter call, whatever pair of masks it is given.
C25_NeverReloads ==
    [][(match_call' = "filter" /\ Published /\ downsampling_factor = None) =>
            /\ nucleus_lookup_dict' = nucleus_lookup_dict
            /\ nuclei_discard_list' = nuclei_discard_list
            /\ cytosol_discard_list' = cytosol_discard_list
            /\ ret_nucleus' # None
            /\ <<Val(ret_nucleus'), Val(ret_cytosol')>> = FirstFilter
            /\ Filtered => (ret_nucleus' = ret_nucleus /\ ret_cytosol' = ret_cytosol)]_vars

\* a filter call given another pair of masks than the session holds has
\* returned, on a session whose lookup table and discard lists are not empty
C25_Witness ==
    /\ match_call = "filter"
    /\ args_differ
    /\ Filtered
    /\ Val(nucleus_lookup_dict) # << >>
    /\ nuclei_discard_list # << >>
    /\ cytosol_discard_list # << >>

\* C26: a call of get_lookup_table on a session that has its lookup table
\* yields the lookup table it had and leaves the set of discarded nuclei and
\* the set of discarded cytosols as they were.
C26_LookupTableIdempotent ==
    [][(match_call' = "get_lookup_table" /\ Published) =>
            /\ error' = "none"
            /\ nucleus_lookup_dict' = nucleus_lookup_dict
            /\ Range(nuclei_discard_list') = Range(nuclei_discard_list)
            /\ Range(cytosol_discard_list') = Range(cytosol_discard_list)]_vars

\* get_lookup_table has returned on a session that holds a matched pair, a
\* multinucleated cell (two nuclei and their cytosol discarded) and masks
\* other than the ones this call was given: a call after the first
C26_Witness ==
    /\ match_call = "get_lookup_table"
    /\ Published
    /\ args_differ
    /\ Val(nucleus_lookup_dict) # << >>
    /\ Len(nuclei_discard_list) >= 2
    /\ cytosol_discard_list # << >>

====
